---- MODULE Spec2Model ----
(***************************************************************************)
(* Model of the harmonic-playlist core of playlist-creator:                *)
(*   - the Camelot wheel lookup and compatibility rule (DJ harmonizer),     *)
(*   - the three-source audio feature reconciliation                       *)
(*     (alternative-audio-sources.js),                                     *)
(*   - the sequential batch loop over a track list,                         *)
(*   - the candidate loop of the AcousticBrainz adapter,                    *)
(*   - the feature construction and the playlist grouper (DJ harmonizer),   *)
(*   - the genre categoriser of the genre-playlist utility.                 *)
(*                                                                         *)
(* Representation of JavaScript values:                                    *)
(*   - a string that the code takes apart (parseInt, slice) or builds with *)
(*     a template literal is a sequence of one-character strings;          *)
(*   - a nullable value is <<>> (null) or <<v>>;                            *)
(*   - Adapter B's tempo, and every energy/danceability value, is counted  *)
(*     in tenths (1275 is 127.5 BPM, 8 is 0.8);                             *)
(*   - a confidence is counted in sixtieths (48 is 0.8, 12 is 0.2), which   *)
(*     makes the division by 1, 2 or 3 sources exact.                       *)
(***************************************************************************)
EXTENDS Integers, Sequences, FiniteSets, TLC

VARIABLES
    \* --- Camelot wheel lookups (two lookups, to compare their results)
    wKey1, wMode1, wKey2, wMode2,   \* arguments of getCamelotKey
    wPos1, wPos2,                   \* results of getCamelotKey
    wCompat,                        \* result of getHarmonicCompatibility(wPos1)
    wCompat2,                       \* result of getHarmonicCompatibility(wPos2)
    wpc,                            \* position of the wheel computation
    \* --- one reconciliation: combineAudioFeatures and what is made of it
    cLastfm, cAcousticbrainz, cBeatport,   \* the three settled adapter results
    cCombined,                      \* result of combineAudioFeatures
    cResults,                       \* what the batch pushes for it (0 or 1 entry)
    cAnalyzed,                      \* result of processAlternativeAnalysis
    cpc,                            \* position of the reconciliation
    \* --- batchAnalyzeAlternativeSources(tracks, progressCallback)
    tracks,                         \* the input list of track objects
    progressCallback,               \* "none" or "given"
    lastfmKey,                      \* whether APIS.lastfm.key is configured
    i,                              \* loop index (0-based, as in the code)
    pc,                             \* where the batch function stands
    pending,                        \* adapter calls in flight
    started,                        \* adapter calls started for track i
    lastfmData, acousticbrainzData, beatportData,  \* settled results, or Null
    results,                        \* the list the batch returns
    analyses,                       \* per visited index: Some(confidence), or
                                    \* Null where no analysis was returned
    waited,                         \* milliseconds since the cooldown timer
                                    \* was set
    progressLog,                    \* the calls of progressCallback, in order
    dispatched,                     \* the indices whose analysis was started
    \* --- processAlternativeAnalysis followed by createDJPlaylists
    gResults,                       \* the list of batch results
    gAnalyzed,                      \* the features made of it
    gPlaylists,                     \* the entries of the returned object
    gpc,                            \* position of the grouping
    \* --- getAcousticBrainzData(artist, track)
    aSearch,                        \* how the MusicBrainz search ends
    aRecordings,                    \* searchData.recordings
    aNext,                          \* index of the candidate in hand (1-based)
    aRequested,                     \* the analysis requests sent, in order
    aResult,                        \* Null, Some(returned object) or
                                    \* Some(error)
    apc,                            \* where the adapter stands
    \* --- categorizeTracksByGenre(tracks, artists)
    genreTracks,                    \* the items of the saved-tracks list
    genreArtists,                   \* the artist objects fetched for them
    genreMap,                       \* the entries of the returned object
    genrepc                         \* position of the categorisation

wheelVars == <<wKey1, wMode1, wKey2, wMode2, wPos1, wPos2, wCompat, wCompat2,
               wpc>>

combineVars == <<cLastfm, cAcousticbrainz, cBeatport, cCombined, cResults,
                 cAnalyzed, cpc>>

logVars == <<progressLog, dispatched>>

batchVars == <<tracks, progressCallback, lastfmKey, i, pc, pending, started,
               lastfmData, acousticbrainzData, beatportData, results, analyses,
               waited, logVars>>

groupVars == <<gResults, gAnalyzed, gPlaylists, gpc>>

abVars == <<aSearch, aRecordings, aNext, aRequested, aResult, apc>>

genreVars == <<genreTracks, genreArtists, genreMap, genrepc>>

vars == <<wheelVars, combineVars, batchVars, groupVars, abVars, genreVars>>

(***************************************************************************)
(* JavaScript primitives                                                   *)
(***************************************************************************)
Null == <<>>

Some(v) == <<v>>

\* a test that only null fails
Truthy_NotNull(x) == x # Null

\* JS truthiness of a nullable number: null and 0 are falsy
Truthy(x) == x # Null /\ x[1] # 0

Digits == <<"0", "1", "2", "3", "4", "5", "6", "7", "8", "9">>

IsDigit(c) == \E d \in 1..10 : Digits[d] = c

DigitVal(c) == (CHOOSE d \in 1..10 : Digits[d] = c) - 1

NaN == "NaN"

\* String(n) for a non-negative integer, as used by `${n}`
RECURSIVE NumToStr(_)
NumToStr(n) ==
    IF n < 10 THEN <<Digits[n + 1]>>
    ELSE NumToStr(n \div 10) \o <<Digits[(n % 10) + 1]>>

\* value of the longest prefix of digits of s, reading from acc
RECURSIVE ParseDigits(_, _)
ParseDigits(s, acc) ==
    IF s = <<>> \/ ~IsDigit(Head(s)) THEN acc
    ELSE ParseDigits(Tail(s), 10 * acc + DigitVal(Head(s)))

\* parseInt(s) for a string without sign or leading blanks
ParseInt(s) ==
    IF s = <<>> \/ ~IsDigit(Head(s)) THEN NaN ELSE ParseDigits(s, 0)

\* s.slice(-1)
SliceLast(s) == IF s = <<>> THEN <<>> ELSE <<s[Len(s)]>>

(***************************************************************************)
(* Key-circle model                                                        *)
(***************************************************************************)
Unknown == <<"U", "n", "k", "n", "o", "w", "n">>

\* a wheel table in which B major was typed with E major's slot
CAMELOT_WHEEL_Collide ==
    [k \in 0..11 |->
        << <<"1", "B">>, <<"8", "B">>, <<"3", "B">>, <<"1", "0", "B">>,
           <<"5", "B">>, <<"1", "2", "B">>, <<"7", "B">>, <<"2", "B">>,
           <<"9", "B">>, <<"4", "B">>, <<"1", "1", "B">>, <<"5", "B">> >>[k + 1]]

CAMELOT_WHEEL ==
    [k \in 0..11 |->
        << <<"1", "B">>, <<"8", "B">>, <<"3", "B">>, <<"1", "0", "B">>,
           <<"5", "B">>, <<"1", "2", "B">>, <<"7", "B">>, <<"2", "B">>,
           <<"9", "B">>, <<"4", "B">>, <<"1", "1", "B">>, <<"6", "B">> >>[k + 1]]

CAMELOT_WHEEL_MINOR ==
    [k \in 0..11 |->
        << <<"8", "A">>, <<"3", "A">>, <<"1", "0", "A">>, <<"5", "A">>,
           <<"1", "2", "A">>, <<"7", "A">>, <<"2", "A">>, <<"9", "A">>,
           <<"4", "A">>, <<"1", "1", "A">>, <<"6", "A">>, <<"1", "A">> >>[k + 1]]

\* table[key] || 'Unknown' for a nullable key
Lookup(table, key) ==
    IF key # Null /\ key[1] \in DOMAIN table THEN table[key[1]] ELSE Unknown

\* key and mode are nullable numbers
getCamelotKey(key, mode) ==
    IF mode = Some(1) THEN Lookup(CAMELOT_WHEEL, key)
    ELSE Lookup(CAMELOT_WHEEL_MINOR, key)

\* the compatibility list without the wraparound of the two neighbours
getHarmonicCompatibility_NoWrap(camelotKey) ==
    IF camelotKey = <<>> \/ camelotKey = Unknown THEN <<>>
    ELSE
        LET number == ParseInt(camelotKey)
            letter == SliceLast(camelotKey)
            nextNum == number + 1
            prevNum == number - 1
            oppositeLetter == IF letter = <<"A">> THEN <<"B">> ELSE <<"A">>
            fourthUp == IF number + 7 > 12 THEN number + 7 - 12 ELSE number + 7
            fifthUp == IF number + 5 > 12 THEN number + 5 - 12 ELSE number + 5
        IN  << camelotKey,
               NumToStr(nextNum) \o letter,
               NumToStr(prevNum) \o letter,
               NumToStr(number) \o oppositeLetter,
               NumToStr(fourthUp) \o letter,
               NumToStr(fifthUp) \o letter,
               NumToStr(nextNum) \o oppositeLetter,
               NumToStr(prevNum) \o oppositeLetter >>

\* a compatibility list that gives the fourth up in the place of the fifth
getHarmonicCompatibility_FourthTwice(camelotKey) ==
    IF camelotKey = <<>> \/ camelotKey = Unknown THEN <<>>
    ELSE
        LET number == ParseInt(camelotKey)
            letter == SliceLast(camelotKey)
            nextNum == IF number = 12 THEN 1 ELSE number + 1
            prevNum == IF number = 1 THEN 12 ELSE number - 1
            oppositeLetter == IF letter = <<"A">> THEN <<"B">> ELSE <<"A">>
            fourthUp == IF number + 7 > 12 THEN number + 7 - 12 ELSE number + 7
        IN  << camelotKey,
               NumToStr(nextNum) \o letter,
               NumToStr(prevNum) \o letter,
               NumToStr(number) \o oppositeLetter,
               NumToStr(fourthUp) \o letter,
               NumToStr(fourthUp) \o letter,
               NumToStr(nextNum) \o oppositeLetter,
               NumToStr(prevNum) \o oppositeLetter >>

getHarmonicCompatibility(camelotKey) ==
    IF camelotKey = <<>> \/ camelotKey = Unknown THEN <<>>
    ELSE
        LET number == ParseInt(camelotKey)
            letter == SliceLast(camelotKey)
            nextNum == IF number = 12 THEN 1 ELSE number + 1
            prevNum == IF number = 1 THEN 12 ELSE number - 1
            oppositeLetter == IF letter = <<"A">> THEN <<"B">> ELSE <<"A">>
            fourthUp == IF number + 7 > 12 THEN number + 7 - 12 ELSE number + 7
            fifthUp == IF number + 5 > 12 THEN number + 5 - 12 ELSE number + 5
            energyBoost == IF nextNum = 13 THEN 1 ELSE nextNum
            energyDrop == IF prevNum = 0 THEN 12 ELSE prevNum
        IN  << camelotKey,
               NumToStr(nextNum) \o letter,
               NumToStr(prevNum) \o letter,
               NumToStr(number) \o oppositeLetter,
               NumToStr(fourthUp) \o letter,
               NumToStr(fifthUp) \o letter,
               NumToStr(energyBoost) \o oppositeLetter,
               NumToStr(energyDrop) \o oppositeLetter >>

\* the 24 positions of the wheel: slot 1..12 followed by A or B
WheelPositions ==
    { NumToStr(n) \o <<l>> : n \in 1..12, l \in {"A", "B"} }

(***************************************************************************)
(* Track objects                                                           *)
(*                                                                         *)
(* A track object is its id and its shape: "ok"; "badname", an artist or   *)
(* track name that encodeURIComponent rejects (a lone surrogate);          *)
(* "noartists", an object without a first artist; "null", a null element.  *)
(***************************************************************************)
TrackShapes == {"ok", "badname", "noartists", "null"}

TrackObject(id, shape) == [id |-> id, shape |-> shape]

\* !track
IsNullTrack(track) == track.shape = "null"

Adapters == {"lastfm", "acousticbrainz", "beatport"}

(***************************************************************************)
(* Source adapters (alternative-audio-sources.js)                          *)
(*                                                                         *)
(* A settled adapter result is a record. A failed adapter is the record    *)
(* { error: message } that the .catch handler of getAlternativeAudioFeatures*)
(* puts in its place; every other field of it is absent (Null).            *)
(***************************************************************************)
ERR_LASTFM_NOKEY == "Last.fm API key not configured"

ERR_LASTFM == "Last.fm API failed"

ERR_ACOUSTICBRAINZ == "AcousticBrainz failed"

ERR_BEATPORT == "Beatport search failed"

\* x || null for a nullable number
OrNull(x) == IF Truthy(x) THEN x ELSE Null

\* x || null for a nullable string
OrNullStr(x) == IF x # Null /\ x[1] # "" THEN x ELSE Null

\* x || d for a nullable number
OrDefault(x, d) == IF Truthy(x) THEN x[1] ELSE d

\* !data.error (the data object itself is never null here)
NoError(data) == data.error = Null \/ data.error = Some("")

\* the value 1 on the scale of tenths
One == 10

Min(a, b) == IF a < b THEN a ELSE b

\* a conversion to an integer that drops the fraction instead of rounding
MathRound_Truncate(x) == x \div One

\* Math.round of a value counted in tenths: floor(x + 0.5)
MathRound(x) == (2 * x + One) \div (2 * One)

\* Math.random() returns a number in [0, 1). The draws are taken from two
\* sample points, the least value 0 and 11/12, each written <<num, den>>
RandomSamples == { <<0, 1>>, <<11, 12>> }

\* Math.floor(Math.random() * n)
RandomFloor(r, n) == (r[1] * n) \div r[2]

\* Math.round(Math.random())
RandomRound(r) == (2 * r[1] + r[2]) \div (2 * r[2])

\* ---- Adapter A: Last.fm -------------------------------------------------
highEnergyTags ==
    {"electronic", "dance", "house", "techno", "dubstep", "drum and bass",
     "hardcore"}

mediumEnergyTags == {"rock", "pop", "indie", "alternative"}

lowEnergyTags == {"ambient", "classical", "folk", "acoustic", "chill"}

\* lower-cased tag names a track may carry ("" is a tag without a name)
TagNames == {"tech house", "indie pop", "chillout", "jazz", ""}

\* tag.includes(energyTag), for the names of TagNames
Includes(tag, energyTag) ==
    <<tag, energyTag>> \in { <<"tech house", "house">>, <<"indie pop", "pop">>,
                             <<"indie pop", "indie">>, <<"chillout", "chill">> }

\* number of tags that include one of the words
CountMatching(tags, words) ==
    Cardinality({ j \in DOMAIN tags : \E w \in words : Includes(tags[j], w) })

\* estimated energy in tenths
estimateEnergyFromTags(tags) ==
    IF CountMatching(tags, highEnergyTags) > 0 THEN 8
    ELSE IF CountMatching(tags, mediumEnergyTags) > 0 THEN 6
    ELSE IF CountMatching(tags, lowEnergyTags) > 0 THEN 3
    ELSE 5

MaxTags == 2

RECURSIVE SeqsUpTo(_, _)
SeqsUpTo(S, n) ==
    IF n = 0 THEN { <<>> }
    ELSE LET shorter == SeqsUpTo(S, n - 1)
         IN  shorter \cup { Append(q, x) : q \in shorter, x \in S }

TagLists == SeqsUpTo(TagNames, MaxTags)

LastfmFailure(msg) == [error |-> Some(msg), estimatedEnergy |-> Null]

\* what getLastFmData resolves to (the fields the reconciler reads)
LastfmSuccesses ==
    { [error |-> Null, estimatedEnergy |-> Some(estimateEnergyFromTags(tags))] :
        tags \in TagLists }

\* ---- Adapter B: AcousticBrainz ------------------------------------------
keyMap ==
    [n \in {"C", "C#", "Db", "D", "D#", "Eb", "E", "F", "F#", "Gb", "G", "G#",
            "Ab", "A", "A#", "Bb", "B"} |->
        CASE n = "C" -> 0
          [] n \in {"C#", "Db"} -> 1
          [] n = "D" -> 2
          [] n \in {"D#", "Eb"} -> 3
          [] n = "E" -> 4
          [] n = "F" -> 5
          [] n \in {"F#", "Gb"} -> 6
          [] n = "G" -> 7
          [] n \in {"G#", "Ab"} -> 8
          [] n = "A" -> 9
          [] n \in {"A#", "Bb"} -> 10
          [] n = "B" -> 11]

\* r is the random draw used for a name outside keyMap
mapAcousticBrainzKey(abKey, r) ==
    IF abKey \in DOMAIN keyMap THEN keyMap[abKey] ELSE RandomFloor(r, 12)

\* abMode is a nullable string; r is the random draw for an unknown mode
mapAcousticBrainzMode(abMode, r) ==
    IF abMode = Some("major") THEN 1
    ELSE IF abMode = Some("minor") THEN 0
    ELSE RandomRound(r)

\* values of the low-level document: rhythm.bpm (tenths), tonal.key_key,
\* tonal.key_scale, lowlevel.spectral_energy.mean and rhythm.danceability
\* (tenths); Null is a missing field
RawBpms == { Null, Some(0), Some(3), Some(1275), Some(1280) }

RawKeys ==
    { Null, Some(""), Some("H"), Some("C"), Some("C#"), Some("Db"), Some("F#"),
      Some("A"), Some("B") }

RawModes == { Null, Some("major"), Some("minor") }

RawEnergies == { Null, Some(25) }

RawDanceabilities == { Null, Some(7), Some(15) }

AcousticBrainzFailure ==
    [error |-> Some(ERR_ACOUSTICBRAINZ), bpm |-> Null, key |-> Null,
     mode |-> Null, energy |-> Null, danceability |-> Null]

\* the object getAcousticBrainzData returns for a usable document
AcousticBrainzResult(bpm, key, mode, energy, danceability) ==
    [error |-> Null,
     bpm |-> OrNull(bpm),
     key |-> OrNullStr(key),
     mode |-> OrNullStr(mode),
     energy |-> OrNull(energy),
     danceability |-> OrNull(danceability)]

AcousticBrainzSuccesses ==
    { AcousticBrainzResult(b, k, m, e, d) :
        b \in RawBpms, k \in RawKeys, m \in RawModes, e \in RawEnergies,
        d \in RawDanceabilities }

\* ---- Adapter C: Beatport estimate ---------------------------------------
genres == <<"house", "techno", "trance", "drum and bass", "dubstep">>

\* r1, r2, r3 are the three random draws, in the order the code makes them
estimateBeatportData(r1, r2, r3) ==
    LET randomGenre == genres[RandomFloor(r1, Len(genres)) + 1]
        estimatedBpm ==
            CASE randomGenre = "house" -> 120 + RandomFloor(r2, 8)
              [] randomGenre = "techno" -> 125 + RandomFloor(r2, 10)
              [] randomGenre = "trance" -> 128 + RandomFloor(r2, 8)
              [] randomGenre = "drum and bass" -> 170 + RandomFloor(r2, 10)
              [] randomGenre = "dubstep" -> 140 + RandomFloor(r2, 10)
              [] OTHER -> 120 + RandomFloor(r2, 20)
    IN  [bpm |-> estimatedBpm, key |-> RandomFloor(r3, 12),
         genre |-> randomGenre]

BeatportFailure ==
    [error |-> Some(ERR_BEATPORT), bpm |-> Null, key |-> Null, genre |-> Null]

\* the object getBeatportData returns
BeatportResult(r1, r2, r3) ==
    LET estimatedData == estimateBeatportData(r1, r2, r3)
    IN  [error |-> Null, bpm |-> Some(estimatedData.bpm),
         key |-> Some(estimatedData.key), genre |-> Some(estimatedData.genre)]

BeatportSuccesses ==
    { BeatportResult(r1, r2, r3) :
        r1 \in RandomSamples, r2 \in RandomSamples, r3 \in RandomSamples }

(***************************************************************************)
(* Feature reconciler                                                      *)
(***************************************************************************)
WeightBeatport == 18

\* a weight for AcousticBrainz of four times the estimator's
WeightAcousticBrainz_Fourfold == 4 * WeightBeatport

\* the weights and the threshold, in sixtieths
WeightAcousticBrainz == 48

WeightLastfm == 12

\* a threshold set at the weight of the estimator
ConfidenceThreshold_AtEstimate == WeightBeatport

\* a threshold of 0.1
ConfidenceThreshold_Tenth == WeightLastfm \div 2

ConfidenceThreshold == 12

\* the reconciler with the Beatport result counted as a source whenever it
\* did not fail, also when its data is not used
combineAudioFeatures_CountAll(lastfm, acousticbrainz, beatport, rKey, rMode) ==
    LET \* Prioritize AcousticBrainz for accuracy
        abOk == NoError(acousticbrainz)
        abBpm == abOk /\ Truthy(acousticbrainz.bpm)
        abKey == abOk /\ acousticbrainz.key # Null
        abEnergy == abOk /\ Truthy(acousticbrainz.energy)
        abDance == abOk /\ Truthy(acousticbrainz.danceability)
        bpm1 == IF abBpm THEN Some(MathRound(acousticbrainz.bpm[1]))
                ELSE Null
        key1 == IF abKey
                THEN Some(mapAcousticBrainzKey(acousticbrainz.key[1], rKey))
                ELSE Null
        mode1 == IF abKey
                 THEN Some(mapAcousticBrainzMode(acousticbrainz.mode, rMode))
                 ELSE Null
        energy1 == IF abEnergy THEN Some(Min(One, acousticbrainz.energy[1]))
                   ELSE Null
        dance1 == IF abDance THEN acousticbrainz.danceability ELSE Null
        total1 == IF abBpm THEN WeightAcousticBrainz ELSE 0
        sources1 == IF abOk THEN 1 ELSE 0
        \* Use Beatport as backup for BPM/key
        bpOk == NoError(beatport) /\ ~Truthy(bpm1)
        bpBpm == bpOk /\ Truthy(beatport.bpm)
        bpKey == bpOk /\ Truthy(beatport.key) /\ ~Truthy(key1)
        bpm2 == IF bpBpm THEN beatport.bpm ELSE bpm1
        key2 == IF bpKey THEN beatport.key ELSE key1
        total2 == IF bpBpm THEN total1 + WeightBeatport ELSE total1
        sources2 == IF NoError(beatport) THEN sources1 + 1 ELSE sources1
        \* Use Last.fm for energy estimation
        lfOk == NoError(lastfm)
        lfEnergy == lfOk /\ Truthy(lastfm.estimatedEnergy) /\ ~Truthy(energy1)
        energy3 == IF lfEnergy THEN lastfm.estimatedEnergy ELSE energy1
        total3 == IF lfEnergy THEN total2 + WeightLastfm ELSE total2
        sources3 == IF lfOk THEN sources2 + 1 ELSE sources2
    IN  [bpm |-> bpm2, key |-> key2, mode |-> mode1, energy |-> energy3,
         danceability |-> dance1,
         confidence |-> IF sources3 > 0 THEN total3 \div sources3 ELSE 0]

\* rKey and rMode are the random draws of the two AcousticBrainz mappings
combineAudioFeatures(lastfm, acousticbrainz, beatport, rKey, rMode) ==
    LET \* Prioritize AcousticBrainz for accuracy
        abOk == NoError(acousticbrainz)
        abBpm == abOk /\ Truthy(acousticbrainz.bpm)
        abKey == abOk /\ acousticbrainz.key # Null
        abEnergy == abOk /\ Truthy(acousticbrainz.energy)
        abDance == abOk /\ Truthy(acousticbrainz.danceability)
        bpm1 == IF abBpm THEN Some(MathRound(acousticbrainz.bpm[1]))
                ELSE Null
        key1 == IF abKey
                THEN Some(mapAcousticBrainzKey(acousticbrainz.key[1], rKey))
                ELSE Null
        mode1 == IF abKey
                 THEN Some(mapAcousticBrainzMode(acousticbrainz.mode, rMode))
                 ELSE Null
        energy1 == IF abEnergy THEN Some(Min(One, acousticbrainz.energy[1]))
                   ELSE Null
        dance1 == IF abDance THEN acousticbrainz.danceability ELSE Null
        total1 == IF abBpm THEN WeightAcousticBrainz ELSE 0
        sources1 == IF abOk THEN 1 ELSE 0
        \* Use Beatport as backup for BPM/key
        bpOk == NoError(beatport) /\ ~Truthy(bpm1)
        bpBpm == bpOk /\ Truthy(beatport.bpm)
        bpKey == bpOk /\ Truthy(beatport.key) /\ ~Truthy(key1)
        bpm2 == IF bpBpm THEN beatport.bpm ELSE bpm1
        key2 == IF bpKey THEN beatport.key ELSE key1
        total2 == IF bpBpm THEN total1 + WeightBeatport ELSE total1
        sources2 == IF bpOk THEN sources1 + 1 ELSE sources1
        \* Use Last.fm for energy estimation
        lfOk == NoError(lastfm)
        lfEnergy == lfOk /\ Truthy(lastfm.estimatedEnergy) /\ ~Truthy(energy1)
        energy3 == IF lfEnergy THEN lastfm.estimatedEnergy ELSE energy1
        total3 == IF lfEnergy THEN total2 + WeightLastfm ELSE total2
        sources3 == IF lfOk THEN sources2 + 1 ELSE sources2
    IN  [bpm |-> bpm2, key |-> key2, mode |-> mode1, energy |-> energy3,
         danceability |-> dance1,
         confidence |-> IF sources3 > 0 THEN total3 \div sources3 ELSE 0]

\* Object.keys(analysis.sources).filter(key => !analysis.sources[key].error)
SourcesWithoutError(lastfm, acousticbrainz, beatport) ==
    SelectSeq(<<"lastfm", "acousticbrainz", "beatport">>,
              LAMBDA name :
                  CASE name = "lastfm" -> NoError(lastfm)
                    [] name = "acousticbrainz" -> NoError(acousticbrainz)
                    [] name = "beatport" -> NoError(beatport))

\* the entry the batch pushes for an analysed track
ResultEntry(track, combined, sources) ==
    [track |-> track, bpm |-> combined.bpm, key |-> combined.key,
     mode |-> combined.mode, energy |-> combined.energy,
     danceability |-> combined.danceability,
     confidence |-> combined.confidence, sources |-> sources]

\* a batch that pushes every analysed track
PushIfConfident_NoTest(list, track, combined, sources) ==
    Append(list, ResultEntry(track, combined, sources))

\* the result list after the threshold test of the batch loop
PushIfConfident(list, track, combined, sources) ==
    IF combined.confidence > ConfidenceThreshold
    THEN Append(list, ResultEntry(track, combined, sources))
    ELSE list

(***************************************************************************)
(* Feature construction (DJ harmonizer)                                    *)
(***************************************************************************)
KEY_NAMES ==
    [k \in 0..11 |->
        <<"C", "C#/Db", "D", "D#/Eb", "E", "F", "F#/Gb", "G", "G#/Ab", "A",
          "A#/Bb", "B">>[k + 1]]

DefaultBpm == 120

DefaultLevel == 5

\* the feature pushed for one result with a track and a key
AnalyzedTrack(result) ==
    LET camelotKey == getCamelotKey(result.key, result.mode)
        keyName == IF result.key[1] \in DOMAIN KEY_NAMES
                   THEN KEY_NAMES[result.key[1]] ELSE "Unknown"
        mode == IF result.mode = Some(1) THEN "Major" ELSE "Minor"
    IN  [track |-> result.track,
         bpm |-> OrDefault(result.bpm, DefaultBpm),
         key |-> result.key,
         mode |-> result.mode,
         camelotKey |-> camelotKey,
         keyName |-> <<keyName, " ", mode>>,
         energy |-> OrDefault(result.energy, DefaultLevel),
         danceability |-> OrDefault(result.danceability, DefaultLevel),
         confidence |-> result.confidence,
         sources |-> result.sources,
         harmonicKeys |-> getHarmonicCompatibility(camelotKey)]

\* a harmonizer that makes a feature of a result without a key too; the
\* lookup of the missing key gives it the wheel position 'Unknown'
RECURSIVE processAlternativeAnalysis_KeepAll(_)
processAlternativeAnalysis_KeepAll(analysisResults) ==
    IF analysisResults = <<>> THEN <<>>
    ELSE LET result == Head(analysisResults)
             rest == processAlternativeAnalysis_KeepAll(Tail(analysisResults))
             outside ==
                 [result EXCEPT !.key = Some(Cardinality(DOMAIN KEY_NAMES))]
         IN  IF IsNullTrack(result.track) THEN rest
             ELSE IF result.key = Null
             THEN <<[AnalyzedTrack(outside) EXCEPT !.key = Null]>> \o rest
             ELSE <<AnalyzedTrack(result)>> \o rest

\* results without a track or without a key are left out
RECURSIVE processAlternativeAnalysis(_)
processAlternativeAnalysis(analysisResults) ==
    IF analysisResults = <<>> THEN <<>>
    ELSE LET result == Head(analysisResults)
             rest == processAlternativeAnalysis(Tail(analysisResults))
         IN  IF IsNullTrack(result.track) \/ result.key = Null THEN rest
             ELSE <<AnalyzedTrack(result)>> \o rest

(***************************************************************************)
(* Playlist grouper (DJ harmonizer, createDJPlaylists)                     *)
(*                                                                         *)
(* The two objects keyGroups and playlists are sequences of entries in     *)
(* insertion order: their keys ("1B", "Unknown", "1B-slow") are not        *)
(* integer-like, so Object.entries lists them in the order they were set.  *)
(* A string built from several values is the tuple of its pieces.          *)
(***************************************************************************)
\* speedTracks.length >= 2
MinBandSize == 2

\* a grouper that asks of a partition what it asks of a band
MinGroupSize_AsBand == MinBandSize

\* tracks.length >= 3
MinGroupSize == 3

\* band limits: slow below 100, fast from 130
SlowBelow == 100

FastFrom == 130

\* index of the entry with that key, 0 when there is none
IndexOfKey(entries, key) ==
    IF \E j \in DOMAIN entries : entries[j].key = key
    THEN CHOOSE j \in DOMAIN entries : entries[j].key = key
    ELSE 0

\* an object that lists the key set last first
SetEntry_NewFirst(entries, key, value) ==
    LET at == IndexOfKey(entries, key)
    IN  IF at # 0 THEN [entries EXCEPT ![at].value = value]
        ELSE <<[key |-> key, value |-> value]>> \o entries

\* object[key] = value: a new key goes to the end, a key already there
\* keeps its place
SetEntry(entries, key, value) ==
    LET at == IndexOfKey(entries, key)
    IN  IF at # 0 THEN [entries EXCEPT ![at].value = value]
        ELSE Append(entries, [key |-> key, value |-> value])

\* the forEach that fills keyGroups; a key is the tuple <<camelotKey>>
RECURSIVE keyGroups(_)
keyGroups(analyzedTracks) ==
    IF analyzedTracks = <<>> THEN <<>>
    ELSE LET n == Len(analyzedTracks)
             groups == keyGroups(SubSeq(analyzedTracks, 1, n - 1))
             track == analyzedTracks[n]
             key == <<track.camelotKey>>
             at == IndexOfKey(groups, key)
         IN  IF at = 0 THEN SetEntry(groups, key, <<track>>)
             ELSE SetEntry(groups, key, Append(groups[at].value, track))

\* a sort that leaves the array as it is
SortByBpm_None(list) == list

\* list.sort((a, b) => a.bpm - b.bpm): ascending and stable
RECURSIVE SortByBpm(_)
SortByBpm(list) ==
    IF list = <<>> THEN <<>>
    ELSE LET n == Len(list)
             sorted == SortByBpm(SubSeq(list, 1, n - 1))
             t == list[n]
             notAfter == SelectSeq(sorted, LAMBDA a : a.bpm <= t.bpm)
             after == SelectSeq(sorted, LAMBDA a : a.bpm > t.bpm)
         IN  notAfter \o <<t>> \o after

\* the three filters of bpmRanges, in the order of the object literal
bpmRanges(list) ==
    << [key |-> "slow",
        value |-> SelectSeq(list, LAMBDA t : t.bpm < SlowBelow)],
       [key |-> "medium",
        value |-> SelectSeq(list, LAMBDA t : t.bpm >= SlowBelow
                                              /\ t.bpm < FastFrom)],
       [key |-> "fast",
        value |-> SelectSeq(list, LAMBDA t : t.bpm >= FastFrom)] >>

\* speed.toUpperCase()
ToUpperCase(speed) ==
    CASE speed = "slow" -> "SLOW"
      [] speed = "medium" -> "MEDIUM"
      [] speed = "fast" -> "FAST"

\* the object stored under `${camelotKey}-${speed}`; the name is given
\* without its leading pictograph, and the bullets of the description are
\* written as hyphens
PlaylistSpec(camelotKey, speed, speedTracks) ==
    [name |-> <<camelotKey, " ", ToUpperCase(speed), " (",
                speedTracks[1].keyName, ")">>,
     description |-> <<"DJ Mix Ready - Key: ", camelotKey, " (",
                       speedTracks[1].keyName, ") - BPM: ",
                       NumToStr(speedTracks[1].bpm), "-",
                       NumToStr(speedTracks[Len(speedTracks)].bpm), " - ",
                       NumToStr(Len(speedTracks)), " tracks">>,
     tracks |-> SortByBpm(speedTracks),
     camelotKey |-> camelotKey,
     bpmRange |-> speed]

\* the inner forEach over the bands of one partition
RECURSIVE EmitBands(_, _, _)
EmitBands(playlists, camelotKey, ranges) ==
    IF ranges = <<>> THEN playlists
    ELSE LET speed == Head(ranges).key
             speedTracks == Head(ranges).value
             playlistKey == <<camelotKey, "-", speed>>
         IN  EmitBands(IF Len(speedTracks) >= MinBandSize
                       THEN SetEntry(playlists, playlistKey,
                                PlaylistSpec(camelotKey, speed, speedTracks))
                       ELSE playlists,
                       camelotKey, Tail(ranges))

\* the outer forEach over the partitions
RECURSIVE EmitGroups(_, _)
EmitGroups(playlists, groups) ==
    IF groups = <<>> THEN playlists
    ELSE LET camelotKey == Head(groups).key[1]
             list == Head(groups).value
         IN  EmitGroups(IF Len(list) >= MinGroupSize /\ camelotKey # Unknown
                        THEN EmitBands(playlists, camelotKey,
                                       bpmRanges(SortByBpm(list)))
                        ELSE playlists,
                        Tail(groups))

createDJPlaylists(analyzedTracks) == EmitGroups(<<>>, keyGroups(analyzedTracks))

(***************************************************************************)
(* Wheel computation: two lookups, then the compatibility list of the      *)
(* first. Arguments range over the pitch classes, one key outside the      *)
(* tables, a missing key, and the mode flags 0, 1 and missing.             *)
(***************************************************************************)
PitchClasses == 0..11

KeyArgs == { Some(k) : k \in PitchClasses } \cup { Some(12), Null }

ModeArgs == { Some(0), Some(1), Null }

WheelIdle ==
    /\ wKey1 = Null /\ wMode1 = Null /\ wKey2 = Null /\ wMode2 = Null
    /\ wPos1 = <<>> /\ wPos2 = <<>> /\ wCompat = <<>> /\ wCompat2 = <<>>
    /\ wpc = "unused"

CombineIdle ==
    /\ cLastfm = Null /\ cAcousticbrainz = Null /\ cBeatport = Null
    /\ cCombined = Null /\ cResults = <<>> /\ cAnalyzed = <<>>
    /\ cpc = "unused"

BatchIdle ==
    /\ tracks = <<>> /\ progressCallback = "none" /\ lastfmKey = FALSE
    /\ i = 0 /\ pc = "unused" /\ pending = {}
    /\ started = [a \in Adapters |-> 0]
    /\ lastfmData = Null /\ acousticbrainzData = Null /\ beatportData = Null
    /\ results = <<>> /\ analyses = <<>> /\ waited = 0
    /\ progressLog = <<>> /\ dispatched = <<>>

GroupIdle ==
    /\ gResults = <<>> /\ gAnalyzed = <<>> /\ gPlaylists = <<>>
    /\ gpc = "unused"

AcousticBrainzIdle ==
    /\ aSearch = "unused" /\ aRecordings = <<>> /\ aNext = 0
    /\ aRequested = <<>> /\ aResult = Null /\ apc = "unused"

GenreIdle ==
    /\ genreTracks = <<>> /\ genreArtists = <<>> /\ genreMap = <<>>
    /\ genrepc = "unused"

WheelInit ==
    /\ CombineIdle
    /\ BatchIdle
    /\ GroupIdle
    /\ AcousticBrainzIdle
    /\ GenreIdle
    /\ wKey1 \in KeyArgs
    /\ wMode1 \in ModeArgs
    /\ wKey2 \in KeyArgs
    /\ wMode2 \in ModeArgs
    /\ wPos1 = <<>>
    /\ wPos2 = <<>>
    /\ wCompat = <<>>
    /\ wCompat2 = <<>>
    /\ wpc = "start"

WheelLookup ==
    /\ wpc = "start"
    /\ wPos1' = getCamelotKey(wKey1, wMode1)
    /\ wPos2' = getCamelotKey(wKey2, wMode2)
    /\ wpc' = "looked-up"
    /\ UNCHANGED <<wKey1, wMode1, wKey2, wMode2, wCompat, wCompat2,
                   combineVars, batchVars, groupVars, abVars, genreVars>>

WheelCompat ==
    /\ wpc = "looked-up"
    /\ wCompat' = getHarmonicCompatibility(wPos1)
    /\ wCompat2' = getHarmonicCompatibility(wPos2)
    /\ wpc' = "done"
    /\ UNCHANGED <<wKey1, wMode1, wKey2, wMode2, wPos1, wPos2, combineVars,
                   batchVars, groupVars, abVars, genreVars>>

WheelNext == WheelLookup \/ WheelCompat

SpecWheel == WheelInit /\ [][WheelNext]_vars

(***************************************************************************)
(* One reconciliation: three settled adapter results are combined, put     *)
(* through the threshold test of the batch, and made into a feature.       *)
(***************************************************************************)
SampleTrack == TrackObject(1, "ok")

CombineInit ==
    /\ WheelIdle
    /\ BatchIdle
    /\ GroupIdle
    /\ AcousticBrainzIdle
    /\ GenreIdle
    /\ cLastfm \in LastfmSuccesses \cup { LastfmFailure(ERR_LASTFM) }
    /\ cAcousticbrainz \in AcousticBrainzSuccesses \cup { AcousticBrainzFailure }
    /\ cBeatport \in BeatportSuccesses \cup { BeatportFailure }
    /\ cCombined = Null
    /\ cResults = <<>>
    /\ cAnalyzed = <<>>
    /\ cpc = "settled"

CombineStep ==
    /\ cpc = "settled"
    /\ \E rKey \in RandomSamples, rMode \in RandomSamples :
          cCombined' = combineAudioFeatures(cLastfm, cAcousticbrainz, cBeatport,
                                            rKey, rMode)
    /\ cpc' = "combined"
    /\ UNCHANGED <<cLastfm, cAcousticbrainz, cBeatport, cResults, cAnalyzed,
                   wheelVars, batchVars, groupVars, abVars, genreVars>>

PushStep ==
    /\ cpc = "combined"
    /\ cResults' = PushIfConfident(<<>>, SampleTrack, cCombined,
                        SourcesWithoutError(cLastfm, cAcousticbrainz, cBeatport))
    /\ cpc' = "pushed"
    /\ UNCHANGED <<cLastfm, cAcousticbrainz, cBeatport, cCombined, cAnalyzed,
                   wheelVars, batchVars, groupVars, abVars, genreVars>>

ProcessStep ==
    /\ cpc = "pushed"
    /\ cAnalyzed' = processAlternativeAnalysis(cResults)
    /\ cpc' = "processed"
    /\ UNCHANGED <<cLastfm, cAcousticbrainz, cBeatport, cCombined, cResults,
                   wheelVars, batchVars, groupVars, abVars, genreVars>>

CombineNext == CombineStep \/ PushStep \/ ProcessStep

SpecCombine == CombineInit /\ [][CombineNext]_vars

(***************************************************************************)
(* Batch orchestrator: batchAnalyzeAlternativeSources, with the fan-out of *)
(* getAlternativeAudioFeatures for the track in hand.                      *)
(***************************************************************************)
MaxTracks == 2

\* the track at position j of the input has id j
TrackLists ==
    UNION { { [j \in 1..n |-> TrackObject(IF shapes[j] = "null" THEN 0 ELSE j,
                                          shapes[j])] :
                shapes \in [1..n -> TrackShapes] } : n \in 0..MaxTracks }

\* setTimeout(resolve, 200)
CooldownMs == 200

\* granularity of the clock
TickMs == 100

\* the Last.fm answers of the batch runs: tag lists of the track
BatchTagLists == { <<"tech house">> }

BatchLastfmOutcomes ==
    { LastfmFailure(ERR_LASTFM) }
        \cup { [error |-> Null,
                estimatedEnergy |-> Some(estimateEnergyFromTags(tags))] :
                  tags \in BatchTagLists }

\* the AcousticBrainz answers of the batch runs: no usable document, a full
\* document, a document without any of the fields read, and a document
\* with a tempo of 0.3 and a major key
BatchAcousticBrainzOutcomes ==
    { AcousticBrainzFailure,
      AcousticBrainzResult(Some(1275), Some("A"), Some("minor"), Some(25),
                           Some(7)),
      AcousticBrainzResult(Null, Null, Null, Null, Null),
      AcousticBrainzResult(Some(3), Some("C"), Some("major"), Null, Null) }

BatchInit ==
    /\ WheelIdle
    /\ CombineIdle
    /\ GroupIdle
    /\ AcousticBrainzIdle
    /\ GenreIdle
    /\ tracks \in TrackLists
    /\ progressCallback \in {"none", "given"}
    /\ lastfmKey \in BOOLEAN
    /\ i = 0
    /\ pc = "loop"
    /\ pending = {}
    /\ started = [a \in Adapters |-> 0]
    /\ lastfmData = Null
    /\ acousticbrainzData = Null
    /\ beatportData = Null
    /\ results = <<>>
    /\ analyses = <<>>
    /\ waited = 0
    /\ progressLog = <<>>
    /\ dispatched = <<>>

\* the loop condition fails: return results
Return ==
    /\ pc = "loop"
    /\ i >= Len(tracks)
    /\ pc' = "returned"
    /\ UNCHANGED <<tracks, progressCallback, lastfmKey, i, pending, started,
                   lastfmData, acousticbrainzData, beatportData, results,
                   analyses, waited, wheelVars, combineVars, groupVars, abVars,
                   genreVars, logVars>>

\* progressCallback((i / tracks.length) * 100, `Analyzing: ${track.name}`):
\* the percentage is the fraction <<numerator, denominator>>, and the
\* status text is given by the track it names
ProgressCall(index, track) ==
    [index |-> index, percent |-> <<index * 100, Len(tracks)>>,
     track |-> track.id]

\* a loop that does not call the progress callback
Progress_Silent ==
    /\ pc = "loop"
    /\ i < Len(tracks)
    /\ pc' = IF progressCallback = "given" /\ IsNullTrack(tracks[i + 1])
             THEN "rejected" ELSE "try"
    /\ started' = [a \in Adapters |-> 0]
    /\ UNCHANGED <<tracks, progressCallback, lastfmKey, i, pending,
                   lastfmData, acousticbrainzData, beatportData, results,
                   analyses, waited, wheelVars, combineVars, groupVars, abVars,
                   genreVars, logVars>>

\* top of the loop body: the progress callback, outside the try block.
\* Reading track.name of a null element throws, and so may the callback.
Progress ==
    /\ pc = "loop"
    /\ i < Len(tracks)
    /\ LET track == tracks[i + 1]
       IN  IF progressCallback = "none"
           THEN pc' = "try" /\ UNCHANGED progressLog
           ELSE IF IsNullTrack(track)
           THEN pc' = "rejected" /\ UNCHANGED progressLog
           ELSE /\ progressLog' = Append(progressLog, ProgressCall(i, track))
                /\ \E throws \in BOOLEAN :
                      pc' = IF throws THEN "rejected" ELSE "try"
    /\ started' = [a \in Adapters |-> 0]
    /\ UNCHANGED <<tracks, progressCallback, lastfmKey, i, pending,
                   lastfmData, acousticbrainzData, beatportData, results,
                   analyses, waited, wheelVars, combineVars, groupVars, abVars,
                   genreVars,
                   dispatched>>

\* the try block up to its await: the arguments are read, and
\* getAlternativeAudioFeatures starts the three adapters, each running up
\* to its first await. An argument that cannot be read throws into the
\* catch block, which logs track.name and goes on to the cooldown.
Dispatch ==
    /\ pc = "try"
    /\ LET track == tracks[i + 1]
       IN  IF IsNullTrack(track)
           THEN /\ pc' = "rejected"
                /\ analyses' = Append(analyses, Null)
                /\ UNCHANGED <<pending, started, lastfmData,
                               acousticbrainzData, beatportData, waited,
                               dispatched>>
           ELSE IF track.shape = "noartists"
           THEN /\ pc' = "delay"
                /\ waited' = 0
                /\ analyses' = Append(analyses, Null)
                /\ UNCHANGED <<pending, started, lastfmData,
                               acousticbrainzData, beatportData, dispatched>>
           ELSE /\ pc' = "await"
                /\ dispatched' = Append(dispatched, i)
                /\ started' = [a \in Adapters |-> started[a] + 1]
                /\ lastfmData' =
                       IF ~lastfmKey THEN Some(LastfmFailure(ERR_LASTFM_NOKEY))
                       ELSE IF track.shape = "badname"
                       THEN Some(LastfmFailure(ERR_LASTFM))
                       ELSE Null
                /\ acousticbrainzData' =
                       IF track.shape = "badname"
                       THEN Some(AcousticBrainzFailure) ELSE Null
                /\ IF track.shape = "badname"
                   THEN beatportData' = Some(BeatportFailure)
                   ELSE \E r1 \in RandomSamples, r2 \in RandomSamples,
                           r3 \in RandomSamples :
                           beatportData' = Some(BeatportResult(r1, r2, r3))
                /\ pending' =
                       IF track.shape = "badname" THEN {}
                       ELSE IF lastfmKey THEN {"lastfm", "acousticbrainz"}
                       ELSE {"acousticbrainz"}
                /\ UNCHANGED <<analyses, waited>>
    /\ UNCHANGED <<tracks, progressCallback, lastfmKey, i, results, wheelVars,
                   combineVars, groupVars, abVars, genreVars,
                   progressLog>>

\* the Last.fm requests end: an answer, an error or the timeout
SettleLastfm ==
    /\ "lastfm" \in pending
    /\ \E outcome \in BatchLastfmOutcomes : lastfmData' = Some(outcome)
    /\ pending' = pending \ {"lastfm"}
    /\ UNCHANGED <<tracks, progressCallback, lastfmKey, i, pc, started,
                   acousticbrainzData, beatportData, results, analyses, waited,
                   wheelVars, combineVars, groupVars, abVars,
                   genreVars, logVars>>

\* an AcousticBrainz failure that is not caught per adapter: it rejects the
\* whole fan-out, and the batch skips the track
SettleAcousticBrainz_FailFast ==
    /\ "acousticbrainz" \in pending
    /\ \E outcome \in BatchAcousticBrainzOutcomes :
          IF NoError(outcome)
          THEN /\ acousticbrainzData' = Some(outcome)
               /\ pending' = pending \ {"acousticbrainz"}
               /\ UNCHANGED <<pc, lastfmData, beatportData, analyses, waited>>
          ELSE /\ acousticbrainzData' = Null
               /\ lastfmData' = Null
               /\ beatportData' = Null
               /\ pending' = pending \ {"acousticbrainz"}
               /\ analyses' = Append(analyses, Null)
               /\ pc' = "delay"
               /\ waited' = 0
    /\ UNCHANGED <<tracks, progressCallback, lastfmKey, i, started, results,
                   wheelVars, combineVars, groupVars, abVars,
                   genreVars, logVars>>

\* the MusicBrainz/AcousticBrainz requests end
SettleAcousticBrainz ==
    /\ "acousticbrainz" \in pending
    /\ \E outcome \in BatchAcousticBrainzOutcomes :
          acousticbrainzData' = Some(outcome)
    /\ pending' = pending \ {"acousticbrainz"}
    /\ UNCHANGED <<tracks, progressCallback, lastfmKey, i, pc, started,
                   lastfmData, beatportData, results, analyses, waited,
                   wheelVars, combineVars, groupVars, abVars,
                   genreVars, logVars>>

\* Promise.all resolves: the results are combined, the batch applies the
\* threshold and sets the cooldown timer
Join ==
    /\ pc = "await"
    /\ pending = {}
    /\ \E rKey \in RandomSamples, rMode \in RandomSamples :
          LET combined == combineAudioFeatures(lastfmData[1],
                              acousticbrainzData[1], beatportData[1], rKey, rMode)
              sources == SourcesWithoutError(lastfmData[1],
                              acousticbrainzData[1], beatportData[1])
          IN  /\ results' = PushIfConfident(results, tracks[i + 1], combined,
                                            sources)
              /\ analyses' = Append(analyses, Some(combined.confidence))
    /\ lastfmData' = Null
    /\ acousticbrainzData' = Null
    /\ beatportData' = Null
    /\ pc' = "delay"
    /\ waited' = 0
    /\ UNCHANGED <<tracks, progressCallback, lastfmKey, i, pending, started,
                   wheelVars, combineVars, groupVars, abVars,
                   genreVars, logVars>>

\* time passes while the cooldown timer runs
Tick ==
    /\ pc = "delay"
    /\ waited < CooldownMs
    /\ waited' = waited + TickMs
    /\ UNCHANGED <<tracks, progressCallback, lastfmKey, i, pc, pending, started,
                   lastfmData, acousticbrainzData, beatportData, results,
                   analyses, wheelVars, combineVars, groupVars, abVars,
                   genreVars, logVars>>

\* a loop that does not wait for its cooldown timer
TimerFire_Early ==
    /\ pc = "delay"
    /\ i' = i + 1
    /\ pc' = "loop"
    /\ UNCHANGED <<tracks, progressCallback, lastfmKey, pending, started,
                   lastfmData, acousticbrainzData, beatportData, results,
                   analyses, waited, wheelVars, combineVars, groupVars, abVars,
                   genreVars, logVars>>

\* the cooldown timer fires: next iteration
TimerFire ==
    /\ pc = "delay"
    /\ waited >= CooldownMs
    /\ i' = i + 1
    /\ pc' = "loop"
    /\ UNCHANGED <<tracks, progressCallback, lastfmKey, pending, started,
                   lastfmData, acousticbrainzData, beatportData, results,
                   analyses, waited, wheelVars, combineVars, groupVars, abVars,
                   genreVars, logVars>>

Next ==
    \/ Return
    \/ Progress
    \/ Dispatch
    \/ SettleLastfm
    \/ SettleAcousticBrainz
    \/ Join
    \/ Tick
    \/ TimerFire

Spec == BatchInit /\ [][Next]_vars

(***************************************************************************)
(* Grouping: a list of batch results is made into features and the         *)
(* features into playlists, as the harmonizer does after the analysis.     *)
(*                                                                         *)
(* The result at position j belongs to track j. Its key and mode are one of *)
(* four choices: no key; key 0 in major (1B); key 9 with no mode, as the   *)
(* estimator gives it (11A); and a key outside the tables, which the       *)
(* lookup answers with 'Unknown'. The tempos of a list follow one of the   *)
(* tempo patterns.                                                         *)
(***************************************************************************)
MaxFeatures == 6

GroupKeyChoices ==
    { [key |-> Null, mode |-> Null],
      [key |-> Some(0), mode |-> Some(1)],
      [key |-> Some(9), mode |-> Null],
      [key |-> Some(12), mode |-> Some(1)] }

\* tempos of the results, by position; Null is a result without tempo
TempoPatterns ==
    { << Some(90), Some(95), Some(105), Some(110), Some(135) >>,
      << Some(135), Some(110), Some(105), Some(95), Some(90) >>,
      << Some(100), Some(99), Some(130), Some(129), Some(100) >>,
      << Some(128), Null, Some(170), Some(120), Some(140) >> }

\* the pattern is repeated for a list longer than it
TempoAt(pattern, j) == pattern[((j - 1) % Len(pattern)) + 1]

GroupResult(j, choice, tempo) ==
    ResultEntry(TrackObject(j, "ok"),
                [bpm |-> tempo, key |-> choice.key, mode |-> choice.mode,
                 energy |-> Null, danceability |-> Null,
                 confidence |-> WeightAcousticBrainz],
                <<"acousticbrainz">>)

GroupInit ==
    /\ WheelIdle
    /\ CombineIdle
    /\ BatchIdle
    /\ AcousticBrainzIdle
    /\ GenreIdle
    /\ \E n \in 0..MaxFeatures :
          \E choices \in [1..n -> GroupKeyChoices], pattern \in TempoPatterns :
              gResults = [j \in 1..n |->
                             GroupResult(j, choices[j], TempoAt(pattern, j))]
    /\ gAnalyzed = <<>>
    /\ gPlaylists = <<>>
    /\ gpc = "results"

GroupProcess ==
    /\ gpc = "results"
    /\ gAnalyzed' = processAlternativeAnalysis(gResults)
    /\ gpc' = "analyzed"
    /\ UNCHANGED <<gResults, gPlaylists, wheelVars, combineVars, batchVars,
                   abVars, genreVars>>

GroupCreate ==
    /\ gpc = "analyzed"
    /\ gPlaylists' = createDJPlaylists(gAnalyzed)
    /\ gpc' = "done"
    /\ UNCHANGED <<gResults, gAnalyzed, wheelVars, combineVars, batchVars,
                   abVars, genreVars>>

GroupNext == GroupProcess \/ GroupCreate

SpecGroup == GroupInit /\ [][GroupNext]_vars

(***************************************************************************)
(* Adapter B from the inside: getAcousticBrainzData searches MusicBrainz   *)
(* and asks AcousticBrainz for the low-level document of the candidates.   *)
(*                                                                         *)
(* The answers of the two services are fixed at the start: how the search  *)
(* ends, the recordings it lists (the recording at position j has id j),   *)
(* and for each recording what a request for its document gives:           *)
(*   "throws"   the request fails, runs into the timeout, or the body is   *)
(*              not JSON;                                                  *)
(*   "null"     the body is the JSON value null;                           *)
(*   "error"    a document with an error field;                            *)
(*   "nofields" a document with none of the fields read and no error;      *)
(*   "data"     a document with all the fields read.                       *)
(***************************************************************************)
MaxRecordings == 4

\* a loop over the first four recordings
MaxCandidates_Four == 2 + 2

\* searchData.recordings.slice(0, 3)
MaxCandidates == 3

SearchOutcomes == {"throws", "norecordings", "recordings"}

DocumentKinds == {"throws", "null", "error", "nofields", "data"}

\* the tempo of the document of recording id, in tenths
DocumentBpm(id) == 1200 + 10 * id

\* audioData for a recording whose request does not throw: Null, or the
\* fields of the document that the adapter reads
AudioDocument(recording) ==
    CASE recording.kind = "null" -> Null
      [] recording.kind = "error" ->
            Some([error |-> Some("Not found"), bpm |-> Null, key |-> Null,
                  mode |-> Null, energy |-> Null, danceability |-> Null])
      [] recording.kind = "nofields" ->
            Some([error |-> Null, bpm |-> Null, key |-> Null, mode |-> Null,
                  energy |-> Null, danceability |-> Null])
      [] recording.kind = "data" ->
            Some([error |-> Null, bpm |-> Some(DocumentBpm(recording.id)),
                  key |-> Some("A"), mode |-> Some("minor"),
                  energy |-> Some(25), danceability |-> Some(7)])

\* audioData && !audioData.error
UsableDocument(audioData) == audioData # Null /\ NoError(audioData[1])

\* the object returned for a recording and its document
AcousticBrainzReturn(recording, audioData) ==
    [mbid |-> recording.id,
     features |-> AcousticBrainzResult(audioData[1].bpm, audioData[1].key,
                      audioData[1].mode, audioData[1].energy,
                      audioData[1].danceability)]

\* the rejection of the adapter, as its caller sees it
AcousticBrainzRejection == [mbid |-> 0, features |-> AcousticBrainzFailure]

Candidates(recordings) ==
    SubSeq(recordings, 1, Min(MaxCandidates, Len(recordings)))

AcousticBrainzInit ==
    /\ WheelIdle
    /\ CombineIdle
    /\ BatchIdle
    /\ GroupIdle
    /\ GenreIdle
    /\ aSearch \in SearchOutcomes
    /\ \E n \in 0..MaxRecordings :
          \E kinds \in [1..n -> DocumentKinds] :
              aRecordings = IF aSearch = "recordings"
                            THEN [j \in 1..n |-> [id |-> j, kind |-> kinds[j]]]
                            ELSE <<>>
    /\ aNext = 0
    /\ aRequested = <<>>
    /\ aResult = Null
    /\ apc = "search"

\* the search request ends: an error thrown, or an answer with or without
\* recordings
SearchRecordings ==
    /\ apc = "search"
    /\ IF aSearch = "recordings" /\ Len(aRecordings) # 0
       THEN /\ apc' = "loop"
            /\ aNext' = 1
            /\ UNCHANGED aResult
       ELSE /\ apc' = "failed"
            /\ aResult' = Some(AcousticBrainzRejection)
            /\ UNCHANGED aNext
    /\ UNCHANGED <<aSearch, aRecordings, aRequested, wheelVars, combineVars,
                   batchVars, groupVars,
                   genreVars>>

\* the loop takes the next candidate and sends the request for its document
RequestLowLevel ==
    /\ apc = "loop"
    /\ aNext <= Len(Candidates(aRecordings))
    /\ aRequested' = Append(aRequested, aRecordings[aNext].id)
    /\ apc' = "awaiting"
    /\ UNCHANGED <<aSearch, aRecordings, aNext, aResult, wheelVars,
                   combineVars, batchVars, groupVars,
                   genreVars>>

\* the request ends: a usable document is returned, anything else goes on
\* to the next candidate
SettleLowLevel ==
    /\ apc = "awaiting"
    /\ LET recording == aRecordings[aNext]
       IN  IF recording.kind # "throws"
              /\ UsableDocument(AudioDocument(recording))
           THEN /\ aResult' = Some(AcousticBrainzReturn(recording,
                                        AudioDocument(recording)))
                /\ apc' = "returned"
                /\ UNCHANGED aNext
           ELSE /\ aNext' = aNext + 1
                /\ apc' = "loop"
                /\ UNCHANGED aResult
    /\ UNCHANGED <<aSearch, aRecordings, aRequested, wheelVars, combineVars,
                   batchVars, groupVars,
                   genreVars>>

\* the loop ends without a return: 'No audio analysis data found'
NoAnalysisData ==
    /\ apc = "loop"
    /\ aNext > Len(Candidates(aRecordings))
    /\ aResult' = Some(AcousticBrainzRejection)
    /\ apc' = "failed"
    /\ UNCHANGED <<aSearch, aRecordings, aNext, aRequested, wheelVars,
                   combineVars, batchVars, groupVars,
                   genreVars>>

AcousticBrainzNext ==
    \/ SearchRecordings
    \/ RequestLowLevel
    \/ SettleLowLevel
    \/ NoAnalysisData

SpecAcousticBrainz == AcousticBrainzInit /\ [][AcousticBrainzNext]_vars

(***************************************************************************)
(* Genre categoriser: categorizeTracksByGenre(tracks, artists).            *)
(*                                                                         *)
(* A genre name is a string; toLowerCase and includes are given by tables  *)
(* over the names in use. An item is <<>> for an item whose track is null, *)
(* or <<track>> with track.id (0 for a missing id) and the ids of          *)
(* track.artists. An artist object is <<>> (null) or <<artist>> with its   *)
(* id and its list of genres. A Set is the sequence of its members in      *)
(* insertion order.                                                        *)
(***************************************************************************)
RawGenres == {"hard rock", "Metal", "indie pop", "pop", "ambient"}

\* genre.toLowerCase(), for the names of RawGenres and 'unknown'
ToLowerCase(genre) == IF genre = "Metal" THEN "metal" ELSE genre

\* normalized.includes(word), for the lower-cased names
GenreIncludes(normalized, word) ==
    <<normalized, word>> \in { <<"hard rock", "rock">>, <<"metal", "metal">>,
                               <<"indie pop", "pop">>, <<"indie pop", "indie">>,
                               <<"pop", "pop">> }

normalizeGenre(genre) ==
    LET normalized == ToLowerCase(genre)
        has(word) == GenreIncludes(normalized, word)
    IN  IF has("rock") \/ has("metal") THEN "rock-metal"
        ELSE IF has("pop") THEN "pop"
        ELSE IF has("hip hop") \/ has("rap") THEN "hip-hop-rap"
        ELSE IF has("electronic") \/ has("edm") \/ has("house")
                \/ has("techno") THEN "electronic"
        ELSE IF has("jazz") THEN "jazz"
        ELSE IF has("classical") THEN "classical"
        ELSE IF has("country") THEN "country"
        ELSE IF has("folk") THEN "folk"
        ELSE IF has("blues") THEN "blues"
        ELSE IF has("reggae") THEN "reggae"
        ELSE IF has("latin") \/ has("latino") THEN "latin"
        ELSE IF has("indie") THEN "indie"
        ELSE IF has("alternative") THEN "alternative"
        ELSE IF has("funk") \/ has("soul") \/ has("r&b") THEN "funk-soul-rnb"
        ELSE normalized

\* set.add(member)
SetAdd(set, member) ==
    IF \E j \in DOMAIN set : set[j] = member THEN set ELSE Append(set, member)

RECURSIVE SetAddAll(_, _)
SetAddAll(set, members) ==
    IF members = <<>> THEN set
    ELSE SetAddAll(SetAdd(set, Head(members)), Tail(members))

\* the forEach that fills artistGenreMap
RECURSIVE artistGenreMap(_)
artistGenreMap(artists) ==
    IF artists = <<>> THEN <<>>
    ELSE LET n == Len(artists)
             map == artistGenreMap(SubSeq(artists, 1, n - 1))
             artist == artists[n]
         IN  IF artist # Null /\ Len(artist[1].genres) > 0
             THEN SetEntry(map, artist[1].id, artist[1].genres)
             ELSE map

\* the raw genres of all artists of a track, 'unknown' when there is none
RECURSIVE trackGenres(_, _, _)
trackGenres(set, artistIds, map) ==
    IF artistIds = <<>>
    THEN IF set = <<>> THEN <<"unknown">> ELSE set
    ELSE LET at == IndexOfKey(map, Head(artistIds))
         IN  trackGenres(IF at # 0 THEN SetAddAll(set, map[at].value) ELSE set,
                         Tail(artistIds), map)

\* the forEach that pushes the track under each of its genres
RECURSIVE AddToGenres(_, _, _)
AddToGenres(map, track, rawGenres) ==
    IF rawGenres = <<>> THEN map
    ELSE LET normalizedGenre == normalizeGenre(Head(rawGenres))
             at == IndexOfKey(map, normalizedGenre)
             list == IF at = 0 THEN <<>> ELSE map[at].value
         IN  AddToGenres(SetEntry(map, normalizedGenre, Append(list, track)),
                         track, Tail(rawGenres))

\* the forEach over the items; seenTracks is the Set of ids met so far
RECURSIVE CategorizeItems(_, _, _, _)
CategorizeItems(map, seenTracks, items, artistMap) ==
    IF items = <<>> THEN map
    ELSE LET item == Head(items)
             rest == Tail(items)
         IN  IF item = Null \/ item[1].id = 0
             THEN CategorizeItems(map, seenTracks, rest, artistMap)
             ELSE IF \E j \in DOMAIN seenTracks : seenTracks[j] = item[1].id
             THEN CategorizeItems(map, seenTracks, rest, artistMap)
             ELSE CategorizeItems(
                      AddToGenres(map, item[1],
                                  trackGenres(<<>>, item[1].artists, artistMap)),
                      SetAdd(seenTracks, item[1].id), rest, artistMap)

categorizeTracksByGenre(items, artists) ==
    CategorizeItems(<<>>, <<>>, items, artistGenreMap(artists))

MaxItems == 3

MaxGenres == 2

\* the items of a saved-tracks list: a null track, a track without id, and
\* tracks 1 and 2 with artist 1, artists 1 and 2, artist 2, or an artist 3
\* that was not fetched
GenreItems ==
    { Null,
      Some([id |-> 0, artists |-> <<1>>]),
      Some([id |-> 1, artists |-> <<1>>]),
      Some([id |-> 1, artists |-> <<1, 2>>]),
      Some([id |-> 2, artists |-> <<2>>]),
      Some([id |-> 2, artists |-> <<3>>]) }

\* artist 2 is null, or a pop artist
SecondArtists == { Null, Some([id |-> 2, genres |-> <<"pop">>]) }

GenreInit ==
    /\ WheelIdle
    /\ CombineIdle
    /\ BatchIdle
    /\ GroupIdle
    /\ AcousticBrainzIdle
    /\ \E n \in 0..MaxItems :
          \E items \in [1..n -> GenreItems] : genreTracks = items
    /\ \E genreList \in SeqsUpTo(RawGenres, MaxGenres),
          second \in SecondArtists :
          genreArtists = << Some([id |-> 1, genres |-> genreList]), second >>
    /\ genreMap = <<>>
    /\ genrepc = "fetched"

Categorize ==
    /\ genrepc = "fetched"
    /\ genreMap' = categorizeTracksByGenre(genreTracks, genreArtists)
    /\ genrepc' = "categorized"
    /\ UNCHANGED <<genreTracks, genreArtists, wheelVars, combineVars,
                   batchVars, groupVars, abVars>>

GenreNext == Categorize

SpecGenre == GenreInit /\ [][GenreNext]_vars

(***************************************************************************)
(* Properties of the key-circle model                                      *)
(***************************************************************************)
ModeFlags == { Some(0), Some(1) }

ValidKey(k) == k # Null /\ k[1] \in PitchClasses

Range(s) == { s[j] : j \in DOMAIN s }

\* C1: for every pitch class 0..11 and both mode flags getCamelotKey returns
\* one of the 24 wheel positions (never 'Unknown'), and two lookups that
\* return the same position were given the same (pitch class, mode) pair.
C1_WheelBijection ==
    (wpc # "start" /\ ValidKey(wKey1) /\ wMode1 \in ModeFlags)
        => /\ wPos1 \in WheelPositions
           /\ wPos1 # Unknown
           /\ (ValidKey(wKey2) /\ wMode2 \in ModeFlags /\ wPos1 = wPos2)
                  => (wKey1 = wKey2 /\ wMode1 = wMode2)

\* B minor and C major have been looked up: slot 1 on both rings
C1_Witness ==
    /\ wpc = "looked-up"
    /\ wKey1 = Some(11) /\ wMode1 = Some(0) /\ wPos1 = <<"1", "A">>
    /\ wKey2 = Some(0) /\ wMode2 = Some(1) /\ wPos2 = <<"1", "B">>

\* C2: for each of the 24 wheel positions getHarmonicCompatibility returns
\* exactly 8 entries, the position itself is among them, and every entry is
\* a wheel position with a slot in 1..12.
C2_CompatShape ==
    (wpc = "done" /\ wPos1 \in WheelPositions)
        => /\ Len(wCompat) = 8
           /\ wPos1 \in Range(wCompat)
           /\ \A j \in 1..Len(wCompat) :
                  /\ wCompat[j] \in WheelPositions
                  /\ ParseInt(wCompat[j]) \in 1..12

\* slot 12 wraps to 1 going up, and slot 1 wraps to 12 going down
C2_Witness ==
    /\ wpc = "done"
    /\ wPos1 = <<"1", "2", "B">>
    /\ wCompat[2] = <<"1", "B">>
    /\ wCompat[7] = <<"1", "A">>

(***************************************************************************)
(* Properties of the reconciler                                            *)
(***************************************************************************)
Reconciled == cpc \in {"combined", "pushed", "processed"}

\* n is t (in tenths) rounded to the nearest integer, halves rounding up
IsNearestInteger(n, t) == 10 * n - 5 <= t /\ t < 10 * n + 5

\* Adapter B succeeded with a positive tempo, a key name of keyMap and the
\* mode major or minor, and Adapters A and C both failed
OnlyBWithKey ==
    /\ ~NoError(cLastfm)
    /\ ~NoError(cBeatport)
    /\ NoError(cAcousticbrainz)
    /\ cAcousticbrainz.bpm # Null /\ cAcousticbrainz.bpm[1] > 0
    /\ cAcousticbrainz.key # Null /\ cAcousticbrainz.key[1] \in DOMAIN keyMap
    /\ cAcousticbrainz.mode \in { Some("major"), Some("minor") }

\* the wheel position of B's key name and mode
ExpectedPosition ==
    getCamelotKey(Some(keyMap[cAcousticbrainz.key[1]]),
                  IF cAcousticbrainz.mode = Some("major") THEN Some(1) ELSE Some(0))

\* C3 as stated: when only Adapter B succeeds, with a positive tempo t, a
\* recognised key k and mode m, the feature has tempo round(t), the wheel
\* position of (k, m), and confidence exactly 0.8.
C3_Original ==
    (cpc = "processed" /\ OnlyBWithKey)
        => /\ Len(cAnalyzed) = 1
           /\ IsNearestInteger(cAnalyzed[1].bpm, cAcousticbrainz.bpm[1])
           /\ cAnalyzed[1].camelotKey = ExpectedPosition
           /\ cAnalyzed[1].confidence = 48

\* C3 amended: the reconciled tempo is round(t) and the confidence exactly
\* 0.8; the feature has the wheel position of (k, m), and its tempo is
\* round(t) unless t rounds to 0 (t < 0.5), which the feature replaces by
\* the default 120.
C3_OnlyB ==
    (cpc = "processed" /\ OnlyBWithKey)
        => /\ cCombined.bpm # Null
           /\ IsNearestInteger(cCombined.bpm[1], cAcousticbrainz.bpm[1])
           /\ cCombined.confidence = 48
           /\ Len(cAnalyzed) = 1
           /\ cAnalyzed[1].camelotKey = ExpectedPosition
           /\ cAnalyzed[1].confidence = 48
           /\ IF cAcousticbrainz.bpm[1] >= 5
              THEN IsNearestInteger(cAnalyzed[1].bpm, cAcousticbrainz.bpm[1])
              ELSE cAnalyzed[1].bpm = 120

\* tempo 128, key C, major: tempo 128 at position 1B with confidence 0.8
C3_Witness ==
    /\ cpc = "processed"
    /\ OnlyBWithKey
    /\ cAcousticbrainz.bpm = Some(1280)
    /\ cAcousticbrainz.key = Some("C")
    /\ cAcousticbrainz.mode = Some("major")
    /\ cAnalyzed[1].bpm = 128
    /\ cAnalyzed[1].camelotKey = <<"1", "B">>
    /\ cAnalyzed[1].confidence = 48

\* the weights (in sixtieths) of the sources whose data was taken
BTempoTaken == NoError(cAcousticbrainz) /\ Truthy(cAcousticbrainz.bpm)

BTempoStands ==
    BTempoTaken /\ ~IsNearestInteger(0, cAcousticbrainz.bpm[1])

BEnergyTaken == NoError(cAcousticbrainz) /\ Truthy(cAcousticbrainz.energy)

CTempoTaken == NoError(cBeatport) /\ ~BTempoStands /\ Truthy(cBeatport.bpm)

AEnergyTaken ==
    NoError(cLastfm) /\ Truthy(cLastfm.estimatedEnergy) /\ ~BEnergyTaken

WeightsTaken ==
    (IF BTempoTaken THEN 48 ELSE 0) + (IF CTempoTaken THEN 18 ELSE 0)
        + (IF AEnergyTaken THEN 12 ELSE 0)

Count(b) == IF b THEN 1 ELSE 0

\* the adapters that returned a non-failing result
NonFailing ==
    Count(NoError(cLastfm)) + Count(NoError(cAcousticbrainz))
        + Count(NoError(cBeatport))

\* C6 as stated: the confidence is the sum of the weights taken divided by
\* the number of adapters with a non-failing result, which is the size of
\* the feature's contributing-sources set; 0 when no adapter succeeded.
C6_Original ==
    Reconciled
        => /\ cCombined.confidence * NonFailing = WeightsTaken
           /\ (NonFailing = 0 => cCombined.confidence = 0)
           /\ (cResults # <<>> => Len(cResults[1].sources) = NonFailing)

\* the sources counted by the reconciler: A and B whenever they did not
\* fail, C only when it did not fail and B left no tempo standing
Counted ==
    Count(NoError(cLastfm)) + Count(NoError(cAcousticbrainz))
        + Count(NoError(cBeatport) /\ ~BTempoStands)

\* C6 amended: the confidence is the sum of the weights taken divided by the
\* number of counted sources, where a non-failing A or B always counts
\* (also when it contributed nothing) but a non-failing C counts only when
\* B left no non-zero tempo; the divisor is then at most the size of the
\* contributing-sources set, and the confidence is 0 when nothing succeeded.
C6_Confidence ==
    Reconciled
        => /\ cCombined.confidence * Counted = WeightsTaken
           /\ (NonFailing = 0 <=> Counted = 0)
           /\ (Counted = 0 => cCombined.confidence = 0)
           /\ Counted <= NonFailing
           /\ (cResults # <<>> => Len(cResults[1].sources) = NonFailing)

\* all three adapters succeeded, B with tempo and energy: 0.8 over the two
\* counted sources A and B, while three sources are listed
C6_Witness ==
    /\ cpc = "pushed"
    /\ NonFailing = 3
    /\ BTempoStands /\ BEnergyTaken
    /\ cCombined.confidence = 24
    /\ Len(cResults) = 1
    /\ Len(cResults[1].sources) = 3

(***************************************************************************)
(* Properties of the batch                                                 *)
(***************************************************************************)
Last(q) == q[Len(q)]

\* the fan-out of the track in hand has settled and is being joined
Joining == pc = "await" /\ pending = {} /\ pc' = "delay"

Succeeded(data) == data # Null /\ NoError(data[1])

Failed(data) == data # Null /\ ~NoError(data[1])

\* the ids of the tracks in the result list
ResultIds == { results[k].track.id : k \in 1..Len(results) }

\* C4: when Adapter C is the only adapter that succeeds, the reconciled
\* confidence is exactly 0.3 and the batch retains the track in its output.
C4_OnlyEstimate ==
    [][(Joining /\ Succeeded(beatportData) /\ Failed(lastfmData)
            /\ Failed(acousticbrainzData))
        => /\ Last(analyses') = Some(18)
           /\ Len(results') = Len(results) + 1
           /\ \A k \in 1..Len(results) : results'[k] = results[k]
           /\ Last(results').track = tracks[i + 1]
           /\ Last(results').confidence = 18]_vars

\* the track in hand was retained on the estimate alone
C4_Witness ==
    /\ pc = "delay"
    /\ Len(analyses) = i + 1
    /\ Last(analyses) = Some(18)
    /\ results # <<>>
    /\ Last(results).track = tracks[i + 1]
    /\ Last(results).sources = <<"beatport">>
    /\ Last(results).confidence = 18

\* C5: when all three adapter results of a track are failures, the
\* reconciled confidence is 0 and the track is not put in the output.
C5_AllFail ==
    [][(Joining /\ Failed(beatportData) /\ Failed(lastfmData)
            /\ Failed(acousticbrainzData))
        => /\ Last(analyses') = Some(0)
           /\ results' = results
           /\ tracks[i + 1].id \notin ResultIds']_vars

\* a track whose three adapters all failed has been left out
C5_Witness ==
    /\ pc = "delay"
    /\ Len(analyses) = i + 1
    /\ tracks[i + 1].shape = "badname"
    /\ Last(analyses) = Some(0)
    /\ tracks[i + 1].id \notin ResultIds

\* C7: the output holds a track if and only if the track's reconciled
\* confidence is strictly greater than 0.2 (12 sixtieths); the output is a
\* subsequence of the input in input order with every track at most once,
\* so it is never longer than the input.
C7_Threshold ==
    /\ \A j \in 1..Len(tracks) :
          (\E k \in 1..Len(results) : results[k].track = tracks[j])
              <=> (j <= Len(analyses) /\ analyses[j] # Null
                      /\ analyses[j][1] > 12)
    /\ \A k \in 1..Len(results) :
          /\ results[k].track.id \in 1..Len(tracks)
          /\ results[k].track = tracks[results[k].track.id]
          /\ results[k].confidence = analyses[results[k].track.id][1]
    /\ \A k, l \in 1..Len(results) :
          k < l => results[k].track.id < results[l].track.id
    /\ Len(results) <= Len(tracks)

\* the batch returned the second of two tracks only: the first was analysed
\* with a confidence of 1/6 and dropped
C7_Witness ==
    /\ pc = "returned"
    /\ Len(tracks) = 2
    /\ analyses = << Some(10), Some(48) >>
    /\ Len(results) = 1
    /\ results[1].track = tracks[2]

\* C8: once the batch has started it visits every input track and returns
\* normally; no error raised while a track is handled (a malformed track
\* object, a throwing progress callback) propagates to the caller.
C8_NeverAborts ==
    /\ pc # "rejected"
    /\ pc = "returned" => Len(analyses) = Len(tracks)

\* C9: adapter calls are started for a track only when no call of an
\* earlier track is in flight, every earlier track has been dealt with and
\* the cooldown of 200 ms after the previous track has elapsed; calls in
\* flight all belong to the track in hand (at most three); the tracks are
\* taken in input order.
C9_Sequential ==
    /\ [](pending # {} => (pc = "await" /\ Len(analyses) = i))
    /\ [](pending \subseteq Adapters /\ Cardinality(pending) <= 3)
    /\ [][(\E a \in Adapters : started'[a] > started[a])
            => /\ pending = {}
               /\ Len(analyses) = i
               /\ i > 0 => waited >= 200
               /\ i' = i]_vars
    /\ [][i' = i \/ (i' = i + 1 /\ pending = {} /\ waited >= 200
                         /\ Len(analyses) = i')]_vars

\* the calls of the second track are in flight, after the first track's
\* cooldown
C9_Witness ==
    /\ i = 1
    /\ pc = "await"
    /\ pending = {"lastfm", "acousticbrainz"}
    /\ Len(analyses) = 1
    /\ waited >= 200

\* the names of the adapters whose settled result is not a failure
SucceededNames ==
    { a \in Adapters :
        CASE a = "lastfm" -> Succeeded(lastfmData)
          [] a = "acousticbrainz" -> Succeeded(acousticbrainzData)
          [] a = "beatport" -> Succeeded(beatportData) }

AllSettled ==
    lastfmData # Null /\ acousticbrainzData # Null /\ beatportData # Null

\* C10: in getAlternativeAudioFeatures each adapter is started exactly once
\* for the track; the results are combined only when all three have
\* settled; an adapter that settles, with a failure or not, leaves the
\* other calls and their results as they are; a failure is kept as an
\* absent source and the call never rejects.
C10_FanOut ==
    /\ [](pc = "await" => \A a \in Adapters : started[a] = 1)
    /\ [](pc = "await"
            => \A a \in Adapters : a \in pending <=>
                  CASE a = "lastfm" -> lastfmData = Null
                    [] a = "acousticbrainz" -> acousticbrainzData = Null
                    [] a = "beatport" -> beatportData = Null)
    /\ [][pc = "await"
            => \/ /\ pc' = "await"
                  /\ started' = started
                  /\ analyses' = analyses /\ results' = results
                  /\ lastfmData # Null => lastfmData' = lastfmData
                  /\ acousticbrainzData # Null
                        => acousticbrainzData' = acousticbrainzData
                  /\ beatportData # Null => beatportData' = beatportData
                  /\ Cardinality(pending') = Cardinality(pending) - 1
               \/ /\ pc' = "delay"
                  /\ pending = {} /\ AllSettled
                  /\ Len(analyses') = Len(analyses) + 1
                  /\ Last(analyses') # Null
                  /\ results' # results
                        => { Last(results').sources[k] :
                               k \in 1..Len(Last(results').sources) }
                             = SucceededNames]_vars

\* AcousticBrainz failed, and the results of Last.fm and of the estimator
\* were combined all the same
C10_Witness ==
    /\ pc = "delay"
    /\ results # <<>>
    /\ Last(results).track = tracks[i + 1]
    /\ Last(results).sources = <<"lastfm", "beatport">>
    /\ Last(results).confidence = 15
    /\ \A a \in Adapters : started[a] = 1

(***************************************************************************)
(* Properties of the playlist grouper                                      *)
(***************************************************************************)
GroupDone == gpc = "done"

Speeds == {"slow", "medium", "fast"}

AllPositions == WheelPositions \cup {Unknown}

\* the features of a wheel position, and those of them in a tempo band
FeaturesAt(pos) ==
    { j \in DOMAIN gAnalyzed : gAnalyzed[j].camelotKey = pos }

InBand(bpm, speed) ==
    CASE speed = "slow" -> bpm < 100
      [] speed = "medium" -> bpm >= 100 /\ bpm < 130
      [] speed = "fast" -> bpm >= 130

FeaturesIn(pos, speed) ==
    { j \in FeaturesAt(pos) : InBand(gAnalyzed[j].bpm, speed) }

Emitted(pos, speed) ==
    \E k \in DOMAIN gPlaylists :
        /\ gPlaylists[k].value.camelotKey = pos
        /\ gPlaylists[k].value.bpmRange = speed

TemposOf(list) == [j \in DOMAIN list |-> list[j].bpm]

\* five features of one wheel position with the tempos 90, 95, 105, 110, 135
FiveOfOnePosition ==
    /\ Len(gAnalyzed) = 5
    /\ gAnalyzed[1].camelotKey # Unknown
    /\ \A j \in 1..5 : gAnalyzed[j].camelotKey = gAnalyzed[1].camelotKey
    /\ \A t \in {90, 95, 105, 110, 135} :
          \E j \in 1..5 : gAnalyzed[j].bpm = t

\* C11: createDJPlaylists emits a playlist for a wheel position and a tempo
\* band exactly when the position is not 'Unknown', at least 3 features have
\* the position and at least 2 of them lie in the band. So every playlist
\* has at least 2 tracks, a position with exactly 2 features has no
\* playlist, and five features of one position with the tempos 90, 95, 105,
\* 110, 135 give the slow playlist [90, 95] and the medium playlist
\* [105, 110] and no other.
C11_EmitRule ==
    GroupDone =>
        /\ \A pos \in AllPositions, speed \in Speeds :
              Emitted(pos, speed) <=>
                  /\ pos # Unknown
                  /\ Cardinality(FeaturesAt(pos)) >= 3
                  /\ Cardinality(FeaturesIn(pos, speed)) >= 2
        /\ \A k \in DOMAIN gPlaylists : Len(gPlaylists[k].value.tracks) >= 2
        /\ \A pos \in AllPositions :
              Cardinality(FeaturesAt(pos)) = 2 =>
                  \A speed \in Speeds : ~Emitted(pos, speed)
        /\ FiveOfOnePosition =>
              /\ Len(gPlaylists) = 2
              /\ gPlaylists[1].value.bpmRange = "slow"
              /\ TemposOf(gPlaylists[1].value.tracks) = <<90, 95>>
              /\ gPlaylists[2].value.bpmRange = "medium"
              /\ TemposOf(gPlaylists[2].value.tracks) = <<105, 110>>

\* the five-feature example was grouped, its tempos given in descending order
C11_Witness ==
    /\ GroupDone
    /\ FiveOfOnePosition
    /\ gAnalyzed[1].bpm = 135
    /\ Len(gPlaylists) = 2

MinOf(S) == CHOOSE x \in S : \A y \in S : x <= y

MaxOf(S) == CHOOSE x \in S : \A y \in S : x >= y

\* C12: in every playlist of createDJPlaylists all tracks have the
\* playlist's wheel position, all tempos lie in the playlist's band (slow
\* below 100, medium from 100 to below 130, fast from 130), the tracks are
\* in ascending order of tempo, and the two numbers of the BPM range in the
\* description are the least and the greatest tempo of the tracks.
C12_PlaylistShape ==
    GroupDone =>
        \A k \in DOMAIN gPlaylists :
            LET playlist == gPlaylists[k].value
                tempos == TemposOf(playlist.tracks)
            IN  /\ \A j \in DOMAIN playlist.tracks :
                      /\ playlist.tracks[j].camelotKey = playlist.camelotKey
                      /\ InBand(tempos[j], playlist.bpmRange)
                /\ \A j \in 1..(Len(tempos) - 1) : tempos[j] <= tempos[j + 1]
                /\ ParseInt(playlist.description[6]) = MinOf(Range(tempos))
                /\ ParseInt(playlist.description[8]) = MaxOf(Range(tempos))

\* a playlist holds two tracks that came in descending order of tempo
C12_Witness ==
    /\ GroupDone
    /\ \E k \in DOMAIN gPlaylists, j1, j2 \in DOMAIN gAnalyzed :
          /\ j1 < j2
          /\ gAnalyzed[j1].bpm > gAnalyzed[j2].bpm
          /\ gAnalyzed[j1] \in Range(gPlaylists[k].value.tracks)
          /\ gAnalyzed[j2] \in Range(gPlaylists[k].value.tracks)

\* position in the input of the first feature of a wheel position
FirstIndex(pos) == MinOf(FeaturesAt(pos))

SpeedRank(speed) ==
    CASE speed = "slow" -> 1 [] speed = "medium" -> 2 [] speed = "fast" -> 3

GroupProcessed == gpc \in {"analyzed", "done"}

TrackIdsOf(list) == [j \in DOMAIN list |-> list[j].track.id]

NoUnknownPlaylist ==
    \A k \in DOMAIN gPlaylists :
        /\ gPlaylists[k].value.camelotKey # Unknown
        /\ \A j \in DOMAIN gPlaylists[k].value.tracks :
              gPlaylists[k].value.tracks[j].camelotKey # Unknown

\* C14 as stated: every track of the batch output becomes a feature, one
\* whose pitch class is unresolved with the wheel position 'Unknown', and no
\* playlist is made of the 'Unknown' partition.
C14_Original ==
    /\ GroupProcessed =>
          \A j \in DOMAIN gResults :
              \E f \in DOMAIN gAnalyzed :
                  /\ gAnalyzed[f].track = gResults[j].track
                  /\ gResults[j].key = Null => gAnalyzed[f].camelotKey = Unknown
    /\ GroupDone => NoUnknownPlaylist

\* C14: processAlternativeAnalysis leaves out every track of the batch
\* output whose pitch class is unresolved and makes a feature of every other
\* track, in the order of the output; a feature has the wheel position
\* 'Unknown' exactly when its key is outside the pitch classes 0..11; and
\* createDJPlaylists makes no playlist of the 'Unknown' partition, whatever
\* its size.
C14_Dropped ==
    /\ GroupProcessed =>
          /\ TrackIdsOf(gAnalyzed)
                 = TrackIdsOf(SelectSeq(gResults, LAMBDA r : r.key # Null))
          /\ \A f \in DOMAIN gAnalyzed :
                gAnalyzed[f].camelotKey = Unknown
                    <=> gAnalyzed[f].key[1] \notin 0..11
    /\ GroupDone => NoUnknownPlaylist

\* a track without a pitch class was left out, and three features of the
\* 'Unknown' partition, two of them in one band, were grouped
C14_Witness ==
    /\ GroupDone
    /\ \E j \in DOMAIN gResults : gResults[j].key = Null
    /\ Cardinality(FeaturesAt(Unknown)) >= 3
    /\ \E speed \in Speeds : Cardinality(FeaturesIn(Unknown, speed)) >= 2

(***************************************************************************)
(* Properties of Adapter B's candidate loop                                *)
(***************************************************************************)
\* whether a request for the document of the recording at position j yields
\* usable data
YieldsUsable(j) ==
    /\ aRecordings[j].kind # "throws"
    /\ UsableDocument(AudioDocument(aRecordings[j]))

Tried == 1..Len(aRequested)

AdapterEnded == apc \in {"returned", "failed"}

\* C18: getAcousticBrainzData requests the documents of at most the first 3
\* recordings of the search result, one at a time and in search order; it
\* returns the data of the first candidate whose request yields a usable
\* document and requests no later one; a candidate whose request fails or
\* yields no usable document is followed by the next candidate; and the
\* adapter fails exactly when the search finds no recording or none of the
\* candidates tried yields a usable document.
C18_Candidates ==
    /\ Len(aRequested) <= 3
    /\ Len(aRequested) <= Len(aRecordings)
    /\ \A j \in Tried : aRequested[j] = aRecordings[j].id
    /\ \A j \in Tried : j < Len(aRequested) => ~YieldsUsable(j)
    /\ apc \in {"loop", "awaiting"} =>
          Len(aRequested) = IF apc = "awaiting" THEN aNext ELSE aNext - 1
    /\ apc = "returned" =>
          LET last == Len(aRequested)
          IN  /\ last >= 1
              /\ YieldsUsable(last)
              /\ aResult[1].mbid = aRecordings[last].id
              /\ aResult[1].features.error = Null
              /\ aResult[1].features.bpm
                    = IF aRecordings[last].kind = "data"
                      THEN Some(DocumentBpm(aRecordings[last].id))
                      ELSE Null
    /\ apc = "failed" =>
          /\ aResult = Some(AcousticBrainzRejection)
          /\ \/ aSearch # "recordings"
             \/ aRecordings = <<>>
             \/ /\ Len(aRequested) = IF Len(aRecordings) < 3
                                      THEN Len(aRecordings) ELSE 3
                /\ \A j \in Tried : ~YieldsUsable(j)
    /\ AdapterEnded =>
          (apc = "failed" <=>
              \/ aSearch # "recordings"
              \/ aRecordings = <<>>
              \/ \A j \in Tried : ~YieldsUsable(j))

\* the third candidate's data is returned after a failed request and a
\* document with an error, and a fourth recording is not asked for
C18_Witness ==
    /\ apc = "returned"
    /\ Len(aRecordings) = 4
    /\ aRecordings[1].kind = "throws"
    /\ aRecordings[2].kind = "error"
    /\ aRecordings[4].kind = "data"
    /\ aRequested = <<1, 2, 3>>
    /\ aResult[1].features.bpm = Some(DocumentBpm(3))

(***************************************************************************)
(* Properties of the reconciled values                                     *)
(***************************************************************************)
\* a level in tenths that lies in [0, 1]
UnitLevel(x) == 0 <= x /\ x <= 10

\* C15 as stated: the energy and the danceability of every reconciled
\* result and of every feature lie in [0, 1], whatever the adapters
\* return, and each is 0.5 in the feature when no source supplied it.
C15_UnitRange ==
    /\ Reconciled =>
          /\ cCombined.energy # Null => UnitLevel(cCombined.energy[1])
          /\ cCombined.danceability # Null
                => UnitLevel(cCombined.danceability[1])
    /\ cpc = "processed" =>
          \A f \in DOMAIN cAnalyzed :
              /\ UnitLevel(cAnalyzed[f].energy)
              /\ UnitLevel(cAnalyzed[f].danceability)
              /\ cCombined.energy = Null => cAnalyzed[f].energy = 5
              /\ cCombined.danceability = Null
                    => cAnalyzed[f].danceability = 5

\* C16: for every combination of adapter results the reconciled confidence
\* lies in [0, 1], in the reconciled result, in the entry the batch pushes
\* and in the feature.
C16_ConfidenceRange ==
    /\ Reconciled => 0 <= cCombined.confidence /\ cCombined.confidence <= 60
    /\ \A j \in DOMAIN cResults :
          0 <= cResults[j].confidence /\ cResults[j].confidence <= 60
    /\ \A f \in DOMAIN cAnalyzed :
          0 <= cAnalyzed[f].confidence /\ cAnalyzed[f].confidence <= 60

\* all three weights were taken (B's tempo rounded to 0, so C's was taken
\* too): their sum 1.3 is divided by 3
C16_Witness ==
    /\ cpc = "processed"
    /\ WeightsTaken = 48 + 18 + 12
    /\ cCombined.confidence = 26
    /\ Len(cResults) = 1

\* Adapter B did not supply a tempo: it failed or its result has none
BWithoutTempo == ~NoError(cAcousticbrainz) \/ cAcousticbrainz.bpm = Null

\* C17 as stated: when Adapter B did not supply a tempo and Adapter C
\* succeeded, the reconciled tempo and pitch class are those returned by C,
\* for each of the pitch classes 0..11, and 0.3 is part of the weight sum.
C17_BackupFromC ==
    (Reconciled /\ BWithoutTempo /\ NoError(cBeatport))
        => /\ cCombined.bpm = cBeatport.bpm
           /\ cCombined.key = cBeatport.key
           /\ cCombined.confidence * Counted
                 = 18 + (IF AEnergyTaken THEN 12 ELSE 0)

(***************************************************************************)
(* Properties of the progress reports and of the tempos of a batch         *)
(***************************************************************************)
Logged(index) == \E j \in DOMAIN progressLog : progressLog[j].index = index

\* the percentages of the calls do not decrease (fractions compared by
\* cross-multiplication)
PercentagesAscend ==
    \A j \in 1..(Len(progressLog) - 1) :
        progressLog[j].percent[1] * progressLog[j + 1].percent[2]
            <= progressLog[j + 1].percent[1] * progressLog[j].percent[2]

\* C19 as stated: the progress callback is called exactly once per input
\* track, in input order; the call for a track comes after that track's
\* analysis was dispatched and before it completes; and the percentages
\* reported do not decrease.
C19_Original ==
    progressCallback = "given" =>
        /\ \A j \in DOMAIN progressLog :
              /\ progressLog[j].index = j - 1
              /\ progressLog[j].index \in Range(dispatched)
        /\ \A k \in DOMAIN analyses : Logged(k - 1)
        /\ pc = "returned" => Len(progressLog) = Len(tracks)
        /\ PercentagesAscend

\* C19: a batch without progress callback makes no call. With a callback,
\* the calls are those for the tracks 0, 1, 2, ... in input order, at most
\* one per track, for the track named and with the percentage 100 i / N,
\* which increases from call to call; the call for a track is made before
\* that track's analysis is dispatched, so every dispatched track has been
\* reported and at most the track reported last is not yet dispatched; and a
\* batch that returns has made exactly one call per input track.
C19_ReportedFirst ==
    /\ progressCallback = "none" => progressLog = <<>>
    /\ \A j \in DOMAIN progressLog :
          /\ progressLog[j].index = j - 1
          /\ progressLog[j].track = tracks[j].id
          /\ progressLog[j].percent = <<100 * (j - 1), Len(tracks)>>
          /\ j < Len(progressLog) =>
                progressLog[j].percent[1] < progressLog[j + 1].percent[1]
    /\ progressCallback = "given" =>
          /\ \A k \in Range(dispatched) : Logged(k)
          /\ \A k \in DOMAIN analyses : Logged(k - 1)
          /\ pc = "try" => /\ Logged(i)
                           /\ i \notin Range(dispatched)
                           /\ Len(analyses) = i
          /\ pc = "returned" => Len(progressLog) = Len(tracks)

\* a batch over two tracks with a callback returned: two calls, 0 and 50
\* percent, and both analyses were dispatched
C19_Witness ==
    /\ pc = "returned"
    /\ progressCallback = "given"
    /\ Len(tracks) = 2
    /\ progressLog = << [index |-> 0, percent |-> <<0, 2>>, track |-> 1],
                        [index |-> 1, percent |-> <<100, 2>>, track |-> 2] >>
    /\ dispatched = <<0, 1>>

\* the tempos Adapter B's answers round to, when not 0, and the tempos
\* Adapter C estimates
TemposOfB ==
    { n \in 1..200 :
        \E b \in BatchAcousticBrainzOutcomes :
            b.bpm # Null /\ IsNearestInteger(n, b.bpm[1]) }

TemposOfC == { c.bpm[1] : c \in BeatportSuccesses }

\* C20: every entry of the list that batchAnalyzeAlternativeSources builds
\* has a tempo that is not null and not 0, which is Adapter B's rounded
\* tempo or Adapter C's estimate; so the feature made of it has this tempo
\* and not the default of 120 put in for a missing one.
C20_TempoResolved ==
    /\ \A j \in DOMAIN results :
          /\ results[j].bpm # Null
          /\ results[j].bpm[1] \in TemposOfB \cup TemposOfC
    /\ LET features == processAlternativeAnalysis(results)
       IN  \A f \in DOMAIN features :
               \A j \in DOMAIN results :
                   results[j].track = features[f].track
                       => features[f].bpm = results[j].bpm[1]

\* an entry was pushed for which Adapter B gave a tempo that rounds to 0
\* with a major key, and the tempo is Adapter C's
C20_Witness ==
    /\ results # <<>>
    /\ Last(results).mode = Some(1)
    /\ Last(results).bpm[1] \in TemposOfC
    /\ Last(results).bpm[1] \notin TemposOfB

(***************************************************************************)
(* Properties of the compatibility relation                                *)
(***************************************************************************)
\* C21: the compatibility relation is symmetric and its lists are free of
\* duplicates: for all wheel positions p and q, q is in the list of p
\* exactly when p is in the list of q, and the 8 entries of the list of any
\* p are pairwise distinct, also where slot 12 wraps to slot 1.
C21_SymmetricDistinct ==
    (wpc = "done" /\ wPos1 \in WheelPositions /\ wPos2 \in WheelPositions)
        => /\ wPos2 \in Range(wCompat) <=> wPos1 \in Range(wCompat2)
           /\ Len(wCompat) = 8
           /\ \A j, k \in 1..Len(wCompat) :
                  j # k => wCompat[j] # wCompat[k]
           /\ Cardinality(Range(wCompat)) = 8

\* 12A and 1A across the wraparound: each is in the list of the other
C21_Witness ==
    /\ wpc = "done"
    /\ wPos1 = <<"1", "2", "A">>
    /\ wPos2 = <<"1", "A">>
    /\ wPos2 \in Range(wCompat)
    /\ wPos1 \in Range(wCompat2)

(***************************************************************************)
(* Properties of the genre categoriser                                     *)
(***************************************************************************)
\* C22 as stated: in the map that categorizeTracksByGenre returns no
\* genre's list holds the same track id twice, also when tracks repeat in
\* the input and when the artists of a track carry several raw genres with
\* the same normalized genre.
C22_NoDuplicateIds ==
    genrepc = "categorized" =>
        \A g \in DOMAIN genreMap :
            \A j, k \in DOMAIN genreMap[g].value :
                j # k => genreMap[g].value[j].id # genreMap[g].value[k].id


====
